---- MODULE Spec2Model ----
(***************************************************************************)
(* Model of the machine scope of cluster-api-provider-ionoscloud           *)
(* (scope/machine.go): construction, bootstrap-data lookup, provider-ID    *)
(* assignment, sibling enumeration, latest-sibling selection, failure      *)
(* detection, and the PatchObject / Finalize commit protocol.              *)
(*                                                                         *)
(* A Go pointer is a sequence of length at most one: <<>> is nil and <<v>> *)
(* points to v.  An error is a string, NoErr being the nil error.          *)
(***************************************************************************)
EXTENDS Integers, Sequences, FiniteSets, TLC

VARIABLES
    pc,            \* position of the reconciliation pass that owns the scope
    params,        \* the MachineParams handed to NewMachine
    client,        \* Machine.client
    patchHelper,   \* Machine.patchHelper: the snapshot taken by patch.NewHelper
    Machine,       \* Machine.Machine
    IonosMachine,  \* Machine.IonosMachine
    ClusterScope,  \* Machine.ClusterScope
    store,         \* the resource store's copy of the scope's IonosCloudMachine
    machines,      \* the IonosCloudMachines the cluster scope lists, in store order
    retry,         \* the retry loop of Finalize: whether it runs, its steps left
    errs,          \* the errors patch.Helper.Patch has collected in this attempt
    calls,         \* the store calls the current (or last) operation has made
    writes,        \* how many times other writers have changed the store's copy
    ctx,           \* the context the caller hands to the scope's operations
    ret            \* what the last operation returned to its caller

vars == <<pc, params, client, patchHelper, Machine, IonosMachine, ClusterScope,
          store, machines, retry, errs, calls, writes, ctx, ret>>

\* ------------------------------------------------------------------ bounds

\* Names of the IonosCloudMachines of the namespace are 1..MaxMachines.
MaxMachines == 3

\* Creation timestamps are 0..MaxTime.
MaxTime == 2

\* ------------------------------------------------------------ values

NoErr == "nil"

Names == 1..MaxMachines

Times == 0..MaxTime

\* m.IonosMachine.Name, the name of the scope's own record.
SelfName == 1

\* m.IonosMachine.Namespace.
SelfNamespace == "ns-infra"

\* An entry of the list ClusterScope.ListMachines returns: the fields of
\* infrav1.IonosCloudMachine that FindLatestMachine reads.
ListedMachine == [Name : Names, CreationTimestamp : Times]

\* The records that can follow the list ms: those of a name not yet in it.
Unlisted(ms) ==
    {m \in ListedMachine : \A i \in 1..Len(ms) : ms[i].Name # m.Name}

RECURSIVE ListsOfLen(_)
ListsOfLen(n) ==
    IF n = 0 THEN {<<>>}
    ELSE UNION {{Append(ms, m) : m \in Unlisted(ms)} : ms \in ListsOfLen(n - 1)}

\* The lists the store can return: objects of one namespace have distinct names.
MachineLists == UNION {ListsOfLen(n) : n \in 0..MaxMachines}

\* The errors a store call (Get, List, Patch) can return.
GetErrors == {"NotFound", "Timeout"}

ListErrors == {"Timeout"}

PatchErrors == {"Conflict", "Timeout"}

\* A store call runs under the context the caller handed in ("caller") or one
\* derived from context.Background() ("background"); a context is done when
\* it is the caller's and the caller has canceled it.
Done(c) == c = "caller" /\ ctx = "canceled"

\* The answers of a store call under context c that can fail with es: a call
\* under a context that is done fails with the context's error.
Answers(c, es) == IF Done(c) THEN {"Canceled"} ELSE es \cup {NoErr}

\* The raw identifiers reconciliation hands to SetProviderID.
IDs == {"a", "b"}

\* A condition's status; "none" is a condition the record does not carry.
ConditionStatus == {"none", "True", "False"}

\* The fields of the IonosCloudMachine the spec patch and the status patch carry.
SpecFields == {"ProviderID"}

\* A status whose failure fields are left out of the status patch.
StatusFieldsNoFailure == {"Provisioned", "Ready"}

StatusFields == {"FailureReason", "FailureMessage", "Provisioned", "Ready"}

\* The IonosCloudMachine as the store holds it when the pass starts.
FreshIonosMachine ==
    [Name |-> SelfName, Namespace |-> SelfNamespace, DatacenterID |-> "dc-1",
     ProviderID |-> <<>>, FailureReason |-> <<>>, FailureMessage |-> <<>>,
     Provisioned |-> "none", Ready |-> "none"]

InitialIonosMachines ==
    {FreshIonosMachine,
     [FreshIonosMachine EXCEPT !.Provisioned = "False", !.Ready = "False"],
     [FreshIonosMachine EXCEPT !.Ready = "True"]}

\* The Cluster API machine: its bootstrap data secret reference.
MachineRecords ==
    [Namespace : {SelfNamespace}, DataSecretName : {<<>>, <<"">>, <<"secret-a">>}]

\* The MachineParams a caller can hand to NewMachine, any field nil or set.
ParamsFor(im) ==
    [Client : {<<>>, <<"client">>},
     Machine : {<<>>} \cup {<<m>> : m \in MachineRecords},
     IonosMachine : {<<>>, <<im>>},
     ClusterScope : {<<>>, <<"cluster-a">>}]

\* The store calls of an operation: which operation, how many Get, List and
\* patch.Helper.Patch calls it has made and how many of the latter failed,
\* the key of its Get (for SetProviderID, which makes no call, the id it was
\* handed), the answer to its last call, the fields the patch
\* helper found changed, whether the operation is a PatchObject that
\* directly follows a successful PatchObject, and the state of the caller's
\* context when the operation began.
CallsOf(op) ==
    [op |-> op, Get |-> 0, List |-> 0, Patch |-> 0, Failed |-> 0, Key |-> <<>>,
     Resp |-> NoErr, Changed |-> {}, Second |-> FALSE, Ctx |-> ctx]

\* retry.DefaultBackoff.Steps of k8s.io/client-go/util/retry.
Steps == 4

\* How many times other writers change the store's copy during the pass.
MaxWrites == 1

NoRetry == [active |-> FALSE, steps |-> 0, lastErr |-> NoErr]

Return(op, listed, val, err) ==
    [op |-> op, listed |-> listed, val |-> val, err |-> err]

\* No operation has returned: none was called yet, or one is in progress.
NoReturn == Return("none", <<>>, <<>>, NoErr)

\* ------------------------------------------------- latest-sibling selection

\* metav1.Time.Before: strictly earlier.
Before(t, u) == t < u

\* A loop step that keeps the first of two records of equal creation time.
ScanStepFirstWins(latestMachine, machine, name) ==
    IF Before(latestMachine.CreationTimestamp, machine.CreationTimestamp)
       /\ machine.Name # name
    THEN machine
    ELSE latestMachine

\* One iteration of the loop of FindLatestMachine.
ScanStep(latestMachine, machine, name) ==
    IF ~Before(machine.CreationTimestamp, latestMachine.CreationTimestamp)
       /\ machine.Name # name
    THEN machine
    ELSE latestMachine

RECURSIVE Scan(_, _, _, _)
Scan(ms, i, latestMachine, name) ==
    IF i > Len(ms) THEN latestMachine
    ELSE Scan(ms, i + 1, ScanStep(latestMachine, ms[i], name), name)

\* A length check that lets a list of one record through.
TooShortOffByOne(ms) == Len(ms) < 1

\* The list being too short for a distinct sibling to exist.
TooShort(ms) == Len(ms) <= 1

\* A final check that never recognises the scope's own record.
IsSelfNever(latestMachine, name) == FALSE

\* The check after the loop: the candidate is the scope's own record.
IsSelf(latestMachine, name) == latestMachine.Name = name

\* FindLatestMachine after a successful ListMachines: a pointer to the record.
FindLatest(ms, name) ==
    IF TooShort(ms) THEN <<>>
    ELSE LET latestMachine == Scan(ms, 1, ms[1], name)
         IN  IF IsSelf(latestMachine, name) THEN <<>> ELSE <<latestMachine>>

\* ---------------------------------------------------------------- NewMachine

\* A construction that does not check the cluster scope.
NewMachineErrNoClusterCheck(p, helperOk) ==
    IF p.Client = <<>> THEN "machine scope params lack a client"
    ELSE IF p.Machine = <<>> THEN "machine scope params lack a Cluster API machine"
    ELSE IF p.IonosMachine = <<>> THEN "machine scope params lack a IONOS Cloud machine"
    ELSE IF ~helperOk THEN "failed to init patch helper"
    ELSE NoErr

\* The error NewMachine returns; helperOk is whether patch.NewHelper succeeds.
NewMachineErr(p, helperOk) ==
    IF p.Client = <<>> THEN "machine scope params lack a client"
    ELSE IF p.Machine = <<>> THEN "machine scope params lack a Cluster API machine"
    ELSE IF p.IonosMachine = <<>> THEN "machine scope params lack a IONOS Cloud machine"
    ELSE IF p.ClusterScope = <<>>
         THEN "machine scope params need a IONOS Cloud cluster scope"
    ELSE IF ~helperOk THEN "failed to init patch helper"
    ELSE NoErr

\* patch.NewHelper keeps a copy of the object as it is at construction.
NewMachine ==
    /\ pc = "new"
    /\ \E helperOk \in BOOLEAN :
         LET err == NewMachineErr(params, helperOk) IN
         /\ ret' = Return("NewMachine", <<>>, <<>>, err)
         /\ IF err = NoErr
            THEN /\ client' = params.Client
                 /\ patchHelper' = params.IonosMachine
                 /\ Machine' = params.Machine
                 /\ ClusterScope' = params.ClusterScope
                 /\ IonosMachine' = params.IonosMachine
                 /\ pc' = "ready"
            ELSE /\ pc' = "failed"
                 /\ UNCHANGED <<client, patchHelper, Machine, ClusterScope,
                                IonosMachine>>
    /\ calls' = CallsOf("NewMachine")
    /\ UNCHANGED <<ctx, params, store, machines, retry, errs, writes>>

\* ------------------------------------------------------ sibling enumeration

\* ClusterScope.ListMachines: the store's list, or an error and no list.
Listed(e) == IF e = NoErr THEN machines ELSE <<>>

ListMachines ==
    /\ pc = "ready"
    /\ \E e \in Answers("caller", ListErrors) :
         ret' = Return("ListMachines", Listed(e), Listed(e), e)
    /\ calls' = [CallsOf("ListMachines") EXCEPT !.List = 1]
    /\ UNCHANGED <<pc, ctx, params, client, patchHelper, Machine, IonosMachine,
                   ClusterScope, store, machines, retry, errs, writes>>

CountMachines ==
    /\ pc = "ready"
    /\ \E e \in Answers("caller", ListErrors) :
         ret' = Return("CountMachines", Listed(e), <<Len(Listed(e))>>, e)
    /\ calls' = [CallsOf("CountMachines") EXCEPT !.List = 1]
    /\ UNCHANGED <<pc, ctx, params, client, patchHelper, Machine, IonosMachine,
                   ClusterScope, store, machines, retry, errs, writes>>

FindLatestMachine ==
    /\ pc = "ready"
    /\ \E e \in Answers("caller", ListErrors) :
         ret' = IF e # NoErr
                THEN Return("FindLatestMachine", <<>>, <<>>, e)
                ELSE Return("FindLatestMachine", machines,
                            FindLatest(machines, IonosMachine[1].Name), NoErr)
    /\ calls' = [CallsOf("FindLatestMachine") EXCEPT !.List = 1]
    /\ UNCHANGED <<pc, ctx, params, client, patchHelper, Machine, IonosMachine,
                   ClusterScope, store, machines, retry, errs, writes>>

\* -------------------------------------------- latest-sibling specification

\* A scope built for the fresh record, and any list the store can hold.
InitFind ==
    /\ ctx = "live"
    /\ pc = "ready"
    /\ params = [Client |-> <<"client">>,
                 Machine |-> <<[Namespace |-> SelfNamespace, DataSecretName |-> <<>>]>>,
                 IonosMachine |-> <<FreshIonosMachine>>,
                 ClusterScope |-> <<"cluster-a">>]
    /\ client = params.Client
    /\ patchHelper = params.IonosMachine
    /\ Machine = params.Machine
    /\ IonosMachine = params.IonosMachine
    /\ ClusterScope = params.ClusterScope
    /\ store = FreshIonosMachine
    /\ machines \in MachineLists
    /\ retry = NoRetry
    /\ errs = <<>>
    /\ calls = CallsOf("NewMachine")
    /\ writes = 0
    /\ ret = Return("NewMachine", <<>>, <<>>, NoErr)

NextFind == ListMachines \/ CountMachines \/ FindLatestMachine

SpecFind == InitFind /\ [][NextFind]_vars

\* ------------------------------------------------- accessors and mutators

\* The part of a step that leaves the scope and the store as they are.
ScopeUnchanged ==
    UNCHANGED <<pc, ctx, params, client, patchHelper, Machine, ClusterScope, store,
                machines, retry, errs, writes>>

DatacenterID ==
    /\ pc = "ready"
    /\ ret' = Return("DatacenterID", <<>>, <<IonosMachine[1].DatacenterID>>, NoErr)
    /\ calls' = CallsOf("DatacenterID")
    /\ UNCHANGED IonosMachine
    /\ ScopeUnchanged

\* A provider ID stored as handed in.
CanonicalRaw(id) == id

\* The provider-URI form SetProviderID stores.
Canonical(id) == "ionos://" \o id

SetProviderID ==
    /\ pc = "ready"
    /\ \E id \in IDs :
         /\ IonosMachine' = <<[IonosMachine[1] EXCEPT !.ProviderID = <<Canonical(id)>>]>>
         /\ calls' = [CallsOf("SetProviderID") EXCEPT !.Key = <<id>>]
    /\ ret' = Return("SetProviderID", <<>>, <<>>, NoErr)
    /\ ScopeUnchanged

\* A failure check that looks at the reason only.
FailedReasonOnly(status) == status.FailureReason # <<>>

Failed(status) == status.FailureReason # <<>> \/ status.FailureMessage # <<>>

HasFailed ==
    /\ pc = "ready"
    /\ ret' = Return("HasFailed", <<>>, <<Failed(IonosMachine[1])>>, NoErr)
    /\ calls' = CallsOf("HasFailed")
    /\ UNCHANGED IonosMachine
    /\ ScopeUnchanged

\* Reconciliation logic writes the exported IonosMachine of the scope: the
\* failure fields and the MachineProvisioned condition.
Reconcile ==
    /\ pc = "ready"
    /\ \/ IonosMachine' = <<[IonosMachine[1] EXCEPT !.FailureReason = <<"CreateError">>]>>
       \/ IonosMachine' = <<[IonosMachine[1] EXCEPT !.FailureMessage = <<"quota exceeded">>]>>
       \/ \E st \in {"True", "False"} :
            IonosMachine' = <<[IonosMachine[1] EXCEPT !.Provisioned = st]>>
    /\ ret' = Return("Reconcile", <<>>, <<>>, NoErr)
    /\ calls' = CallsOf("Reconcile")
    /\ ScopeUnchanged

\* ------------------------------------------------------ bootstrap lookup

\* ptr.Deref(p, def).
Deref(p, def) == IF p = <<>> THEN def ELSE p[1]

\* A check that lets the empty name through.
NoBootstrapDataNever(name) == FALSE

NoBootstrapData(name) == name = ""

GetBootstrapDataSecret ==
    /\ pc = "ready"
    /\ LET name == Deref(Machine[1].DataSecretName, "")
           key == [Name |-> name, Namespace |-> IonosMachine[1].Namespace]
       IN  IF NoBootstrapData(name)
           THEN /\ ret' = Return("GetBootstrapDataSecret", <<>>, <<>>,
                                 "machine has no bootstrap data yet")
                /\ calls' = CallsOf("GetBootstrapDataSecret")
           ELSE \E e \in Answers("caller", GetErrors) :
                  /\ calls' = [CallsOf("GetBootstrapDataSecret") EXCEPT
                                 !.Get = 1, !.Key = <<key>>, !.Resp = e]
                  /\ ret' = IF e # NoErr
                            THEN Return("GetBootstrapDataSecret", <<>>, <<>>, e)
                            ELSE Return("GetBootstrapDataSecret", <<>>, <<key>>, NoErr)
    /\ UNCHANGED IonosMachine
    /\ ScopeUnchanged

\* ------------------------------------------------------------------ commit

\* A summary that resets the failure fields along the way.
SetSummaryClearing(im) ==
    [im EXCEPT !.Ready = IF im.Provisioned = "none" THEN @ ELSE im.Provisioned,
               !.FailureReason = <<>>, !.FailureMessage = <<>>]

\* A commit that sends the Ready condition as it stands.
SetSummarySkipped(im) == im

\* conditions.SetSummary with WithConditions(MachineProvisionedCondition): the
\* Ready condition becomes the summary of the listed conditions the record
\* carries; with none of them present there is no summary and Ready stays.
SetSummary(im) ==
    [im EXCEPT !.Ready = IF im.Provisioned = "none" THEN @ ELSE im.Provisioned]

\* The fields among fs in which the object differs from the snapshot.
Diff(before, after, fs) == {f \in fs : before[f] # after[f]}

\* The store's object after a merge patch carrying the changed fields.
ApplyPatch(obj, after, changed) ==
    [f \in DOMAIN obj |-> IF f \in changed THEN after[f] ELSE obj[f]]

\* An aggregate that keeps the error of the last sub-patch only.
AggregateLast(es) ==
    IF es = <<>> THEN NoErr
    ELSE IF Len(es) = 1 THEN NoErr
    ELSE es[2]

\* kerrors.NewAggregate over the errors of the sub-patches.
Aggregate(es) ==
    IF es = <<>> THEN NoErr
    ELSE IF Len(es) = 1 THEN es[1]
    ELSE es[1] \o "+" \o es[2]

\* A patch that runs under the context of the reconciliation.
PatchCtxForwarded == "caller"

\* timeoutCtx of PatchObject: derived from context.Background(), not from a
\* context of the caller; its 10 second deadline shows as a Timeout answer.
PatchCtx == "background"

\* The start of PatchObject up to the first store call of the patch helper.
PatchBegin(op) ==
    /\ IonosMachine' = <<SetSummary(IonosMachine[1])>>
    /\ errs' = <<>>
    /\ calls' = IF pc = "backoff"
                THEN [calls EXCEPT !.Patch = @ + 1, !.Changed = {}]
                ELSE [CallsOf(op) EXCEPT
                        !.Patch = 1,
                        !.Second = (op = "PatchObject" /\ ret.op = "PatchObject"
                                    /\ ret.err = NoErr)]
    /\ ret' = NoReturn
    /\ pc' = "patchSpec"

\* A PatchObject that wraps its patch in a retry loop of its own.
PatchObjectRetrying ==
    /\ pc = "ready"
    /\ PatchBegin("PatchObject")
    /\ retry' = [active |-> TRUE, steps |-> Steps, lastErr |-> NoErr]
    /\ UNCHANGED <<ctx, params, client, patchHelper, Machine, ClusterScope, store,
                   machines, writes>>

PatchObject ==
    /\ pc = "ready"
    /\ PatchBegin("PatchObject")
    /\ UNCHANGED <<ctx, params, client, patchHelper, Machine, ClusterScope, store,
                   machines, retry, writes>>

\* retry.OnError(retry.DefaultBackoff, shouldRetry, m.PatchObject): the first
\* attempt.
Finalize ==
    /\ pc = "ready"
    /\ PatchBegin("Finalize")
    /\ retry' = [active |-> TRUE, steps |-> Steps, lastErr |-> NoErr]
    /\ UNCHANGED <<ctx, params, client, patchHelper, Machine, ClusterScope, store,
                   machines, writes>>

\* The patch helper patches the object without its status.
PatchSpec ==
    /\ pc = "patchSpec"
    /\ LET changed == Diff(patchHelper[1], IonosMachine[1], SpecFields) IN
       /\ calls' = [calls EXCEPT !.Changed = @ \cup changed]
       /\ IF changed = {}
          THEN UNCHANGED <<store, errs>>
          ELSE \E e \in Answers(PatchCtx, PatchErrors) :
                 IF e = NoErr
                 THEN /\ store' = ApplyPatch(store, IonosMachine[1], changed)
                      /\ UNCHANGED errs
                 ELSE /\ errs' = Append(errs, e)
                      /\ UNCHANGED store
    /\ pc' = "patchStatus"
    /\ UNCHANGED <<ctx, params, client, patchHelper, Machine, IonosMachine,
                   ClusterScope, machines, retry, writes, ret>>

\* A retry predicate that retries version conflicts only.
ShouldRetryConflictOnly(err) == err = "Conflict"

\* shouldRetry of Finalize.
ShouldRetry(err) == TRUE

\* A retry loop that goes on after a successful attempt.
AttemptOkNever(err) == FALSE

\* The condition of the retry loop: the attempt returned no error.
AttemptOk(err) == err = NoErr

\* A snapshot that follows the object after a successful patch.
SnapshotAfterRefreshed(helper, obj, err) == IF err = NoErr THEN obj ELSE helper

\* The snapshot after patch.Helper.Patch: it is taken by NewHelper only.
SnapshotAfter(helper, obj, err) == helper

\* The patch helper patches the status subresource and Patch returns; the
\* caller is PatchObject itself or the retry loop of Finalize.
PatchStatus ==
    /\ pc = "patchStatus"
    /\ LET changed == Diff(patchHelper[1], IonosMachine[1], StatusFields) IN
       \E e \in (IF changed = {} THEN {NoErr}
                ELSE Answers(PatchCtx, PatchErrors)) :
         LET err == Aggregate(IF e = NoErr THEN errs ELSE Append(errs, e)) IN
         /\ store' = IF e = NoErr
                     THEN ApplyPatch(store, IonosMachine[1], changed)
                     ELSE store
         /\ errs' = <<>>
         /\ calls' = [calls EXCEPT !.Changed = @ \cup changed, !.Resp = err,
                                   !.Failed = IF err = NoErr THEN @ ELSE @ + 1]
         /\ patchHelper' = SnapshotAfter(patchHelper, IonosMachine, err)
         /\ IF ~retry.active
            THEN /\ ret' = Return(calls.op, <<>>, <<>>, err)
                 /\ pc' = "ready"
                 /\ UNCHANGED retry
            ELSE IF AttemptOk(err)
            THEN /\ ret' = Return(calls.op, <<>>, <<>>, NoErr)
                 /\ pc' = "ready"
                 /\ retry' = NoRetry
            ELSE IF ~ShouldRetry(err) \/ retry.steps = 1
            THEN /\ ret' = Return(calls.op, <<>>, <<>>, err)
                 /\ pc' = "ready"
                 /\ retry' = NoRetry
            ELSE /\ retry' = [retry EXCEPT !.steps = @ - 1, !.lastErr = err]
                 /\ pc' = "backoff"
                 /\ UNCHANGED ret
    /\ UNCHANGED <<ctx, params, client, Machine, IonosMachine, ClusterScope,
                   machines, writes>>

\* The sleep of the backoff ends and the retry loop calls PatchObject again.
Backoff ==
    /\ pc = "backoff"
    /\ PatchBegin(calls.op)
    /\ UNCHANGED <<ctx, params, client, patchHelper, Machine, ClusterScope, store,
                   machines, retry, writes>>

\* Another writer changes the store's copy of the IonosCloudMachine.
OtherWriter ==
    /\ pc \notin {"new", "failed"}
    /\ writes < MaxWrites
    /\ writes' = writes + 1
    /\ \E id \in IDs : store' = [store EXCEPT !.ProviderID = <<Canonical(id)>>]
    /\ UNCHANGED <<pc, ctx, params, client, patchHelper, Machine, IonosMachine,
                   ClusterScope, machines, retry, errs, calls, ret>>

\* ------------------------------------------------------------ specification

\* The list of the end-to-end scenario: the scope's own record and a later one.
ScenarioMachines ==
    <<[Name |-> SelfName, CreationTimestamp |-> 0],
      [Name |-> 2, CreationTimestamp |-> 1]>>

Init ==
    /\ ctx = "live"
    /\ pc = "new"
    /\ store \in InitialIonosMachines
    /\ params \in ParamsFor(store)
    /\ client = <<>>
    /\ patchHelper = <<>>
    /\ Machine = <<>>
    /\ IonosMachine = <<>>
    /\ ClusterScope = <<>>
    /\ machines = ScenarioMachines
    /\ retry = NoRetry
    /\ errs = <<>>
    /\ calls = CallsOf("none")
    /\ writes = 0
    /\ ret = NoReturn

Next ==
    \/ NewMachine
    \/ GetBootstrapDataSecret
    \/ DatacenterID
    \/ SetProviderID
    \/ CountMachines
    \/ ListMachines
    \/ FindLatestMachine
    \/ HasFailed
    \/ Reconcile
    \/ PatchObject
    \/ Finalize
    \/ PatchSpec
    \/ PatchStatus
    \/ Backoff
    \/ OtherWriter

Spec == Init /\ [][Next]_vars

\* ------------------------------------------------- commit specification

\* A scope built for a record of the store, before its first operation.
InitCommit ==
    /\ ctx = "live"
    /\ pc = "ready"
    /\ store \in InitialIonosMachines
    /\ params = [Client |-> <<"client">>,
                 Machine |-> <<[Namespace |-> SelfNamespace, DataSecretName |-> <<>>]>>,
                 IonosMachine |-> <<store>>,
                 ClusterScope |-> <<"cluster-a">>]
    /\ client = params.Client
    /\ patchHelper = params.IonosMachine
    /\ Machine = params.Machine
    /\ IonosMachine = params.IonosMachine
    /\ ClusterScope = params.ClusterScope
    /\ machines = ScenarioMachines
    /\ retry = NoRetry
    /\ errs = <<>>
    /\ calls = CallsOf("NewMachine")
    /\ writes = 0
    /\ ret = Return("NewMachine", <<>>, <<>>, NoErr)

\* The mutators and the commit operations, with the store's other writers.
NextCommit ==
    \/ SetProviderID
    \/ Reconcile
    \/ PatchObject
    \/ Finalize
    \/ PatchSpec
    \/ PatchStatus
    \/ Backoff
    \/ OtherWriter

\* A patch call returns within its 10 second deadline and a backoff sleep
\* ends: a commit in progress takes its next step.
FairSpec ==
    /\ InitCommit
    /\ [][NextCommit]_vars
    /\ WF_vars(PatchSpec) /\ WF_vars(PatchStatus) /\ WF_vars(Backoff)

\* ---------------------------------------------- cancellation specification

\* The reconciliation is aborted: the caller's context is canceled.
Abort ==
    /\ pc \notin {"new", "failed"}
    /\ ctx = "live"
    /\ ctx' = "canceled"
    /\ UNCHANGED <<pc, params, client, patchHelper, Machine, IonosMachine,
                   ClusterScope, store, machines, retry, errs, calls, writes,
                   ret>>

\* The commit operations and a lookup under a context that can be canceled.
NextAbort == NextCommit \/ CountMachines \/ Abort

SpecAbort == InitCommit /\ [][NextAbort]_vars

\* ===================================================================== claims

\* The name of the scope's own record.
Self == IonosMachine[1].Name

\* FindLatestMachine has returned after a successful ListMachines.
Found == ret.op = "FindLatestMachine" /\ ret.err = NoErr

\* The positions of the listed records other than the scope's own.
Siblings == {i \in 1..Len(ret.listed) : ret.listed[i].Name # Self}

\* C2: for every list of two or more records with at least one record other
\* than the scope's own, in every order, FindLatestMachine returns a record
\* other than the scope's own whose creation timestamp is not earlier than
\* that of every other such record of the list.
C2_LatestSibling ==
    (Found /\ Len(ret.listed) >= 2 /\ Siblings # {}) =>
        /\ ret.val # <<>>
        /\ ret.val[1].Name # Self
        /\ \A i \in Siblings :
              ret.val[1].CreationTimestamp >= ret.listed[i].CreationTimestamp

\* C3: FindLatestMachine never returns the scope's own record: the result
\* is nil or a record whose name differs from the scope's IonosMachine name.
C3_NeverSelf ==
    ret.op = "FindLatestMachine" =>
        (ret.val = <<>> \/ ret.val[1].Name # Self)

\* A sibling is returned although the scope's own record is listed with a
\* creation time later than every sibling's.
C3_Witness ==
    /\ Found
    /\ ret.val # <<>>
    /\ \E k \in 1..Len(ret.listed) :
         /\ ret.listed[k].Name = Self
         /\ \A i \in Siblings :
               ret.listed[k].CreationTimestamp > ret.listed[i].CreationTimestamp

C5_TieLastWins ==
    (/\ Found
     /\ Len(ret.listed) >= 2
     /\ \A i, j \in 1..Len(ret.listed) :
           ret.listed[i].CreationTimestamp = ret.listed[j].CreationTimestamp) =>
        /\ Siblings # {}
        /\ ret.val = <<ret.listed[CHOOSE i \in Siblings :
                                    \A j \in Siblings : j <= i]>>

\* Three records of equal creation time, the scope's own last: the second
\* record is returned.
C5_Witness ==
    /\ Found
    /\ Len(ret.listed) = 3
    /\ \A i, j \in 1..3 :
          ret.listed[i].CreationTimestamp = ret.listed[j].CreationTimestamp
    /\ ret.listed[3].Name = Self
    /\ ret.val = <<ret.listed[2]>>

\* Whether each of the four required inputs of NewMachine is supplied.
AllSupplied ==
    /\ params.Client # <<>>
    /\ params.Machine # <<>>
    /\ params.IonosMachine # <<>>
    /\ params.ClusterScope # <<>>

NoScope ==
    /\ client = <<>>
    /\ patchHelper = <<>>
    /\ Machine = <<>>
    /\ IonosMachine = <<>>
    /\ ClusterScope = <<>>

\* NewMachine has returned and nothing was called since.
Constructed == ret.op = "NewMachine" /\ ret.err = NoErr

\* A nil input makes NewMachine return an error and no scope.
NilInputFails ==
    (pc # "new" /\ ~AllSupplied) => (pc = "failed" /\ ret.err # NoErr /\ NoScope)

\* The scope NewMachine returns holds the supplied inputs, unchanged.
ScopeHoldsInputs ==
    /\ Constructed =>
         /\ Machine = params.Machine
         /\ IonosMachine = params.IonosMachine
         /\ ClusterScope = params.ClusterScope
    /\ pc \notin {"new", "failed"} =>
         /\ Machine = params.Machine /\ Machine # <<>>
         /\ ClusterScope = params.ClusterScope /\ ClusterScope # <<>>
         /\ IonosMachine # <<>>

\* C1 as stated: a nil input makes NewMachine return an error and no scope,
\* and with all four inputs supplied the call always succeeds and returns a
\* scope whose Machine, IonosMachine and ClusterScope are the inputs.
C1_AlwaysSucceeds ==
    /\ NilInputFails
    /\ ScopeHoldsInputs
    /\ (pc # "new" /\ AllSupplied) => pc # "failed"

\* C1 as amended: a nil input makes NewMachine return an error and no scope;
\* with all four inputs supplied the call succeeds unless patch.NewHelper
\* fails, in which case it returns that error and no scope; a scope that is
\* returned holds the supplied Machine, IonosMachine and ClusterScope.
C1_SucceedsUnlessHelperFails ==
    /\ NilInputFails
    /\ ScopeHoldsInputs
    /\ (pc = "failed" /\ AllSupplied) =>
         (ret.err = "failed to init patch helper" /\ NoScope)

\* NewMachine has returned a scope for fully supplied inputs.
C1_Witness ==
    /\ Constructed
    /\ AllSupplied
    /\ pc = "ready"
    /\ IonosMachine = params.IonosMachine

\* Finalize has returned.
Finalized == pc = "ready" /\ calls.op = "Finalize" /\ ret.op = "Finalize"

\* C6: Finalize stops at the first successful commit: when the first k
\* attempts fail and attempt k+1 succeeds, it returns success after exactly
\* k+1 PatchObject attempts, and it never starts another attempt after a
\* successful one.
C6_StopsAtFirstSuccess ==
    /\ (Finalized /\ ret.err = NoErr) => calls.Patch = calls.Failed + 1
    /\ (calls.op = "Finalize" /\ pc = "backoff") => calls.Failed = calls.Patch
    /\ (calls.op = "Finalize" /\ pc \in {"patchSpec", "patchStatus"}) =>
         calls.Failed = calls.Patch - 1

\* Two attempts failed, the third succeeded, and Finalize returned success.
C6_Witness ==
    /\ Finalized
    /\ ret.err = NoErr
    /\ calls.Failed = 2
    /\ calls.Patch = 3

\* The safety part of C7.
BoundedRetry ==
    /\ calls.Patch <= Steps
    /\ (Finalized /\ ret.err # NoErr) =>
         /\ calls.Patch = Steps
         /\ calls.Failed = Steps
         /\ ret.err = calls.Resp
    /\ (Finalized /\ calls.Failed = calls.Patch) => ret.err # NoErr

\* C7: Finalize always terminates: it makes at most Steps commit attempts,
\* gives up after no error of any kind before the steps are used up, and
\* when every attempt fails it returns the error of the last attempt.
C7_FinalizeTerminates ==
    /\ []BoundedRetry
    /\ (retry.active ~> ~retry.active)

\* Every attempt failed, the last one with a timeout, and Finalize returned
\* that timeout.
C7_Witness ==
    /\ Finalized
    /\ calls.Patch = Steps
    /\ calls.Failed = Steps
    /\ ret.err = "Timeout"
    /\ calls.Resp = "Timeout"

\* C8: PatchObject performs no retry of its own: one call makes exactly one
\* patch attempt and returns its outcome as it is, a conflict included.
C8_PatchObjectNoRetry ==
    calls.op = "PatchObject" =>
        /\ calls.Patch = 1
        /\ pc # "backoff"
        /\ ~retry.active
        /\ pc = "ready" => (ret.op = "PatchObject" /\ ret.err = calls.Resp)

\* PatchObject has returned the conflict of its one attempt.
C8_Witness ==
    /\ pc = "ready"
    /\ calls.op = "PatchObject"
    /\ calls.Patch = 1
    /\ ret.err = "Conflict"

\* A PatchObject that directly follows a successful PatchObject has returned.
SecondPatchDone == pc = "ready" /\ calls.op = "PatchObject" /\ calls.Second

\* A step of the patch helper within such a second PatchObject.
SecondPatchStep ==
    /\ calls.op = "PatchObject"
    /\ calls.Second
    /\ pc \in {"patchSpec", "patchStatus"}
    /\ pc' # pc

\* The fields in which the record differs from what it was at construction.
ChangedSinceConstruction ==
    Diff(params.IonosMachine[1], IonosMachine[1], SpecFields \cup StatusFields)

\* C9 as stated: after a successful PatchObject, a second PatchObject with no
\* mutation in between computes an empty diff against the snapshot and leaves
\* the store's copy unchanged.
C9_SecondDiffEmpty ==
    /\ [](SecondPatchDone => calls.Changed = {})
    /\ [][SecondPatchStep => store' = store]_vars

\* C9 as amended: after a successful PatchObject, a second PatchObject with
\* no mutation in between computes the same diff as the first, that of the
\* record against the snapshot taken at construction (empty only when the
\* record equals that snapshot), and sends it again: the store's copy stays
\* unchanged when its fields still hold what the record holds in them, and a
\* field another writer changed in between is overwritten.
C9_SecondDiffRepeated ==
    /\ [](SecondPatchDone => calls.Changed = ChangedSinceConstruction)
    /\ [][SecondPatchStep =>
            /\ (\A f \in ChangedSinceConstruction : store[f] = IonosMachine[1][f])
                 => store' = store
            /\ \A f \in DOMAIN store :
                 store'[f] # store[f] =>
                   (f \in ChangedSinceConstruction /\ store'[f] = IonosMachine[1][f])]_vars

\* A second PatchObject has returned success with a diff that is not empty.
C9_Witness ==
    /\ SecondPatchDone
    /\ ret.err = NoErr
    /\ calls.Changed # {}

\* The bootstrap data secret reference of the Cluster API machine.
DataSecretName == Machine[1].DataSecretName

\* C10: GetBootstrapDataSecret returns an error and makes no store lookup
\* when the reference is absent or empty; otherwise it makes exactly one Get
\* with the namespace of the IonosMachine and the reference as name, and
\* returns the secret found or the store's error as it is.
C10_BootstrapLookup ==
    calls.op = "GetBootstrapDataSecret" =>
        /\ ret.op = "GetBootstrapDataSecret"
        /\ IF DataSecretName = <<>> \/ DataSecretName = <<"">>
           THEN /\ ret.err # NoErr
                /\ ret.err \notin GetErrors
                /\ ret.val = <<>>
                /\ calls.Get = 0
           ELSE /\ calls.Get = 1
                /\ calls.Key = <<[Name |-> DataSecretName[1],
                                  Namespace |-> IonosMachine[1].Namespace]>>
                /\ ret.err = calls.Resp
                /\ ret.err = NoErr => ret.val = calls.Key
                /\ ret.err # NoErr => ret.val = <<>>
        /\ calls.Patch = 0
        /\ calls.List = 0

\* One lookup was made and the store's NotFound came back as it is.
C10_Witness ==
    /\ calls.op = "GetBootstrapDataSecret"
    /\ calls.Get = 1
    /\ ret.err = "NotFound"
    /\ ret.val = <<>>

\* A commit attempt is in progress: PatchObject has recomputed the summary
\* and the patch helper is talking to the store.
InAttempt == pc \in {"patchSpec", "patchStatus"}

\* The fields the patch of the attempt in progress carries.
Carried ==
    Diff(patchHelper[1], IonosMachine[1], SpecFields \cup StatusFields)

\* The summary of the conditions other than Ready among MachineProvisioned
\* and Ready, as the record stands: the status of MachineProvisioned.
Summary == IonosMachine[1].Provisioned

\* C11: the Ready-summary is never persisted stale: in every commit attempt,
\* those of a Finalize retry included, a Ready condition the patch carries
\* equals the summary recomputed from the record as it stands, and what a
\* status patch writes to the store as Ready is that summary.
C11_ReadyNeverStale ==
    /\ [](InAttempt =>
            /\ "Ready" \in Carried => IonosMachine[1].Ready = Summary
            /\ Summary # "none" => IonosMachine[1].Ready = Summary)
    /\ [][(pc = "patchStatus" /\ pc' # pc /\ store'.Ready # store.Ready) =>
             store'.Ready = Summary]_vars

\* A retry attempt of Finalize carries a Ready condition recomputed after
\* MachineProvisioned became true on a record whose snapshot was not ready.
C11_Witness ==
    /\ InAttempt
    /\ calls.op = "Finalize"
    /\ calls.Patch >= 2
    /\ "Ready" \in Carried
    /\ patchHelper[1].Ready = "False"
    /\ IonosMachine[1].Ready = "True"

\* PatchObject has returned.
Patched == pc = "ready" /\ calls.op = "PatchObject"

\* The scope was constructed on a record without failure fields and
\* FailureReason has been set on it since.
FailureReasonSet ==
    /\ ~Failed(params.IonosMachine[1])
    /\ IonosMachine[1].FailureReason # <<>>

\* What HasFailed answers on a record without failure fields and on one
\* with FailureReason set.
FailureReported ==
    (pc = "ready" /\ ret.op = "HasFailed") =>
        /\ ~Failed(IonosMachine[1]) => ret.val = <<FALSE>>
        /\ IonosMachine[1].FailureReason # <<>> => ret.val = <<TRUE>>

\* The status patch of a PatchObject that follows carries FailureReason, and
\* writes it to the store when the store accepts the patch.
FailureSent ==
    (Patched /\ FailureReasonSet) =>
        /\ "FailureReason" \in calls.Changed
        /\ ret.err = NoErr => store.FailureReason = IonosMachine[1].FailureReason

\* C12 as stated: on a scope constructed without failure fields HasFailed is
\* false, after FailureReason is set it is true, and a following PatchObject
\* sends a status patch with the failure fields and a recomputed Ready-summary
\* that is not ready.
C12_FailureNotReady ==
    /\ FailureReported
    /\ FailureSent
    /\ (Patched /\ FailureReasonSet) => IonosMachine[1].Ready = "False"

\* C12, amended: on a scope constructed without failure fields HasFailed is
\* false, after FailureReason is set it is true, and a following PatchObject
\* sends a status patch with the failure fields; its Ready-summary is the
\* summary of MachineProvisioned alone, whatever the failure fields are, and
\* Ready is left as it was when the record has no MachineProvisioned.
C12_FailureSummaryOfProvisioned ==
    /\ FailureReported
    /\ FailureSent
    /\ (Patched /\ FailureReasonSet) =>
          IonosMachine[1].Ready = IF Summary = "none"
                                  THEN params.IonosMachine[1].Ready
                                  ELSE Summary

\* A PatchObject has written FailureReason to the store with a Ready-summary
\* that says ready.
C12_Witness ==
    /\ Patched
    /\ FailureReasonSet
    /\ ret.err = NoErr
    /\ store.FailureReason = <<"CreateError">>
    /\ store.Ready = "True"
    /\ IonosMachine[1].Provisioned = "True"

\* A step in which HasFailed is called after some other operation.
HasFailedStep == calls.op # "HasFailed" /\ calls'.op = "HasFailed"

\* C13: HasFailed returns true iff at least one of FailureReason and
\* FailureMessage of the status is set, false for a record with neither, and
\* it changes no state: not the record, the snapshot, the store or the scope,
\* and it makes no store call.
C13_HasFailed ==
    /\ []((pc = "ready" /\ ret.op = "HasFailed") =>
            /\ ret.val = <<(IonosMachine[1].FailureReason # <<>>
                             \/ IonosMachine[1].FailureMessage # <<>>)>>
            /\ ret.err = NoErr
            /\ calls.Get + calls.List + calls.Patch = 0)
    /\ [][HasFailedStep =>
            UNCHANGED <<pc, ctx, params, client, patchHelper, Machine, IonosMachine,
                        ClusterScope, store, machines, retry, errs,
                        writes>>]_vars

\* HasFailed has answered true on a record that has only FailureMessage set.
C13_Witness ==
    /\ pc = "ready"
    /\ ret.op = "HasFailed"
    /\ ret.val = <<TRUE>>
    /\ IonosMachine[1].FailureReason = <<>>
    /\ IonosMachine[1].FailureMessage # <<>>

\* The scope operations that are no commit.
NonCommitOps ==
    {"SetProviderID", "DatacenterID", "HasFailed", "GetBootstrapDataSecret",
     "ListMachines", "CountMachines", "FindLatestMachine"}

\* A step of the scope itself, as opposed to a write of another writer.
ScopeStep == writes' = writes

\* C14: persistence only via commit: SetProviderID(id) sets the in-memory
\* provider ID to "ionos://" followed by id and makes no store call, and the
\* scope changes the store's copy only during PatchObject or Finalize, never
\* during one of the other scope operations.
C14_PersistOnlyByCommit ==
    /\ []((pc = "ready" /\ calls.op = "SetProviderID") =>
            /\ IonosMachine[1].ProviderID = <<"ionos://" \o calls.Key[1]>>
            /\ calls.Get + calls.List + calls.Patch = 0)
    /\ [][(calls'.op = "SetProviderID" /\ calls' # calls) => store' = store]_vars
    /\ [][(ScopeStep /\ store' # store) =>
            /\ calls.op \in {"PatchObject", "Finalize"}
            /\ calls'.op = calls.op
            /\ pc \in {"patchSpec", "patchStatus"}]_vars
    /\ [][(ScopeStep /\ calls'.op \in NonCommitOps) => store' = store]_vars

\* SetProviderID has put the provider-URI form of an id into the record
\* while the store's copy still has no provider ID.
C14_Witness ==
    /\ pc = "ready"
    /\ calls.op = "SetProviderID"
    /\ calls.Key = <<"a">>
    /\ IonosMachine[1].ProviderID = <<"ionos://a">>
    /\ store.ProviderID = <<>>

\* A commit operation has returned.
Committed == pc = "ready" /\ calls.op \in {"PatchObject", "Finalize"}

\* The store holds the spec part of the commit: the commit changed spec
\* fields and the store has the record's values for them.
HoldsSpecPart ==
    /\ calls.Changed \cap SpecFields # {}
    /\ \A f \in calls.Changed \cap SpecFields : store[f] = IonosMachine[1][f]

\* The store lacks the status part of the commit.
LacksStatusPart ==
    \E f \in calls.Changed \cap StatusFields : store[f] # IonosMachine[1][f]

\* Attempts are strictly sequential: an attempt starts only when none is in
\* progress, and the attempts started are the failed ones plus the one in
\* progress or the one that succeeded.
Sequential ==
    /\ [](calls.op \in {"PatchObject", "Finalize"} =>
            /\ InAttempt => calls.Patch = calls.Failed + 1
            /\ pc = "backoff" => calls.Patch = calls.Failed
            /\ pc = "ready" =>
                 calls.Patch = calls.Failed + (IF ret.err = NoErr THEN 1 ELSE 0))
    /\ [][calls'.Patch # calls.Patch => ~InAttempt]_vars

\* C15 as stated: at most one patch is outstanding at any time, the attempts
\* of a Finalize are strictly sequential, and a pass never leaves a partial
\* write: the store never holds the spec part of a commit without its status
\* part.
C15_NoPartialWrite ==
    /\ Sequential
    /\ []~(Committed /\ HoldsSpecPart /\ LacksStatusPart)

\* C15, amended: at most one patch call is outstanding at any time and the
\* attempts of a Finalize are strictly sequential; an attempt patches spec
\* and status in two store calls, so a commit that returns an error can leave
\* the spec part in the store without the status part; a commit that returns
\* success with no other writer at work has left all it changed in the store.
C15_SequentialAttempts ==
    /\ Sequential
    /\ []((Committed /\ ret.err = NoErr /\ writes = 0) =>
            \A f \in calls.Changed : store[f] = IonosMachine[1][f])
    /\ []((Committed /\ HoldsSpecPart /\ LacksStatusPart) => ret.err # NoErr)

\* Finalize has used up its attempts and the store holds the new provider ID
\* without the status that belongs to it.
C15_Witness ==
    /\ Committed
    /\ calls.op = "Finalize"
    /\ calls.Patch = Steps
    /\ ret.err # NoErr
    /\ HoldsSpecPart
    /\ LacksStatusPart

\* The errors of a patch call that ran under a context that was done.
CanceledErrors == {"Canceled", "Canceled+Canceled"}

\* C16: a commit is still attempted after the reconciliation was aborted:
\* PatchObject and Finalize can be called with the caller's context canceled,
\* and their patch calls run under a deadline of their own, so no patch call
\* and no commit fails because the caller's context is canceled.
C16_CommitAfterAbort ==
    /\ []((pc = "ready" /\ ctx = "canceled") =>
            ENABLED PatchObject /\ ENABLED Finalize)
    /\ [](calls.op \in {"PatchObject", "Finalize"} =>
            /\ calls.Resp \notin CanceledErrors
            /\ ret.err \notin CanceledErrors
            /\ \A i \in 1..Len(errs) : errs[i] # "Canceled")
    /\ [][(ctx = "canceled" /\ pc = "patchStatus" /\ pc' = "ready"
           /\ ret'.err = NoErr /\ writes = 0) =>
             \A f \in calls'.Changed : store'[f] = IonosMachine[1][f]]_vars

\* A Finalize that began after the caller's context was canceled has written
\* the record's provider ID to the store and returned success.
C16_Witness ==
    /\ Committed
    /\ calls.op = "Finalize"
    /\ calls.Ctx = "canceled"
    /\ ret.err = NoErr
    /\ "ProviderID" \in calls.Changed
    /\ store.ProviderID = IonosMachine[1].ProviderID

\* C17: the failure fields are never cleared by the scope: a failure field
\* that is set stays set over every step, in the record and in the store, so
\* HasFailed never goes from true to false.
C17_FailureNeverCleared ==
    [][IonosMachine # <<>> =>
         /\ IonosMachine' # <<>>
         /\ IonosMachine[1].FailureReason # <<>> =>
              IonosMachine'[1].FailureReason # <<>>
         /\ IonosMachine[1].FailureMessage # <<>> =>
              IonosMachine'[1].FailureMessage # <<>>
         /\ Failed(IonosMachine[1]) => Failed(IonosMachine'[1])
         /\ Failed(store) => Failed(store')]_vars

\* HasFailed answers true after a commit has written both failure fields to
\* the store.
C17_Witness ==
    /\ pc = "ready"
    /\ ret.op = "HasFailed"
    /\ ret.val = <<TRUE>>
    /\ store.FailureReason # <<>>
    /\ store.FailureMessage # <<>>

\* The snapshot is the record the scope was constructed on, whatever the
\* scope has done since.
SnapshotKept ==
    /\ [](pc \notin {"new", "failed"} => patchHelper = params.IonosMachine)
    /\ [][patchHelper # <<>> => patchHelper' = patchHelper]_vars

\* C18 as stated: the patch snapshot is taken once at construction, never
\* mutated afterwards, and consumed by exactly one commit attempt during the
\* scope's lifetime, also when Finalize retries.
C18_SnapshotConsumedOnce ==
    /\ SnapshotKept
    /\ [](calls.op \in {"PatchObject", "Finalize"} => calls.Patch <= 1)

\* C18, amended: the patch snapshot is taken once at construction and never
\* mutated afterwards; every commit attempt reads it: each PatchObject and
\* each attempt of a Finalize sends the fields in which the record differs
\* from that same snapshot.
C18_SnapshotReadByEveryAttempt ==
    /\ SnapshotKept
    /\ []((pc \in {"backoff", "ready"}
           /\ calls.op \in {"PatchObject", "Finalize"}) =>
            calls.Changed = ChangedSinceConstruction)

\* The third attempt of a Finalize has failed against the snapshot of the
\* construction, from which the record differs.
C18_Witness ==
    /\ pc = "backoff"
    /\ calls.op = "Finalize"
    /\ calls.Patch = 3
    /\ calls.Changed # {}
    /\ patchHelper = params.IonosMachine
    /\ patchHelper # IonosMachine

\* No two records of the list have the same creation timestamp.
NoTie(ms) ==
    \A i, j \in 1..Len(ms) :
        i # j => ms[i].CreationTimestamp # ms[j].CreationTimestamp

\* The lists that hold the records of ms in some order.
Reorderings(ms) ==
    {p \in ListsOfLen(Len(ms)) :
        {p[i] : i \in 1..Len(p)} = {ms[i] : i \in 1..Len(ms)}}

\* C19: FindLatestMachine is order-independent when no timestamps tie: for a
\* list of records with pairwise distinct creation timestamps, every order of
\* the list yields the result FindLatestMachine has returned.
C19_OrderIndependent ==
    (Found /\ NoTie(ret.listed)) =>
        \A p \in Reorderings(ret.listed) : FindLatest(p, Self) = ret.val

====
